---- MODULE Spec2Model ----
(***************************************************************************)
(* A model of the 3D bin packer of bp3d.go: Bin.PutItem, Item.Intersect,   *)
(* Packer.Pack with its FewestBoxes pass and its greedy pass,              *)
(* Packer.packToBin with its bin escalation, and Packer.FindFittedBin.     *)
(*                                                                         *)
(* Items are heap objects (the code holds *Item everywhere): an item is an *)
(* identifier, `item` maps it to its fields, and a bin's Items, the        *)
(* packer's Items and UnfitItems are sequences of identifiers, so that one *)
(* item can be referenced from several lists, as in the code.  Bins are    *)
(* identified by their index in the packer's Bins (sorted once, while all  *)
(* bins are still empty).  nil is 0.                                       *)
(*                                                                         *)
(* Lengths are whole numbers.  The float64 arithmetic of rectIntersect is  *)
(* exact on them (halves of small integers), and its comparison with 0.01  *)
(* is carried out on doubled values scaled by one hundred.                 *)
(*                                                                         *)
(* Slices are modelled as values.  The code's append(b2.Items, i) can      *)
(* share b2.Items' backing array with the argument of packToBin; a         *)
(* simulation of the code with backing arrays and capacities gives the     *)
(* same results as value semantics on all inputs within the bounds here.   *)
(***************************************************************************)
EXTENDS Integers, Sequences, FiniteSets

VARIABLES
    FewestBoxes,  \* Packer.FewestBoxes
    Bins,         \* Packer.Bins: sequence of [Width, Height, Depth, Items]
    Items,        \* Packer.Items: the pending list (item identifiers)
    UnfitItems,   \* Packer.UnfitItems
    item,         \* the Item objects: identifier -> [Width, Height, Depth, RotationType, Position]
    pc,           \* where Pack is: "start", "fewestScan", "closestSelect", "closestPack", "greedy", "done"; "api" for direct calls of Bin.PutItem
    err,          \* what Pack returned: "nil", "NoBins", "NoItems", "InvalidBinsVolume", "UnfitItemsExist"; "none" before it returns
    scan,         \* index of the range loop over p.Bins of the FewestBoxes pass
    foundBin,     \* the local foundBin of the FewestBoxes pass (0 is nil)
    searches,     \* history: the pivot searches of packToBin made by the last step
    lastPut,      \* history: the last direct call of Bin.PutItem, with the state before it
    calls         \* number of direct calls of Bin.PutItem made

vars == <<FewestBoxes, Bins, Items, UnfitItems, item, pc, err, scan, foundBin, searches, lastPut, calls>>

(***************************************************************************)
(* Bounds of the model.                                                    *)
(***************************************************************************)
MaxBins == 3
MaxItems == 4
MaxCalls == 2

\* The shapes (width, height, depth) bins and items are drawn from.
BinShapes == << <<1, 1, 1>>, <<2, 1, 1>>, <<3, 2, 1>>, <<2, 2, 2>> >>
ItemShapes == << <<1, 1, 1>>, <<2, 1, 1>>, <<1, 1, 2>>, <<1, 1, 3>> >>
\* The pivots a direct call of Bin.PutItem is given.
PivotCoords == 0..1
Pivots == PivotCoords \X PivotCoords \X PivotCoords

(***************************************************************************)
(* Program constants.                                                      *)
(***************************************************************************)
NumRotations == 6
RotationType_WHD == 0
RotationType_HWD == 1
RotationType_HDW == 2
RotationType_DHW == 3
RotationType_DWH == 4
RotationType_WDH == 5
WidthAxis == 0
HeightAxis == 1
DepthAxis == 2
startPosition == <<0, 0, 0>>
\* The tolerance 0.01 of rectIntersect, in hundredths.
ToleranceHundredths == 1

NewBin(shape) == [Width |-> shape[1], Height |-> shape[2], Depth |-> shape[3], Items |-> <<>>]
NewItem(shape) ==
    [Width |-> shape[1], Height |-> shape[2], Depth |-> shape[3],
     RotationType |-> RotationType_WHD, Position |-> <<0, 0, 0>>]

Abs(x) == IF x < 0 THEN -x ELSE x
MinOf(S) == CHOOSE x \in S : \A y \in S : x <= y

(***************************************************************************)
(* Item                                                                    *)
(***************************************************************************)
ItemVolume(it) == it.Width * it.Height * it.Depth

GetDimension(it) ==
    CASE it.RotationType = RotationType_WHD -> <<it.Width, it.Height, it.Depth>>
      [] it.RotationType = RotationType_HWD -> <<it.Height, it.Width, it.Depth>>
      [] it.RotationType = RotationType_HDW -> <<it.Height, it.Depth, it.Width>>
      [] it.RotationType = RotationType_DHW -> <<it.Depth, it.Height, it.Width>>
      [] it.RotationType = RotationType_DWH -> <<it.Depth, it.Width, it.Height>>
      [] it.RotationType = RotationType_WDH -> <<it.Width, it.Depth, it.Height>>

\* Go's arrays are indexed from 0, tuples from 1.
\* cx = Position[x] + d[x]/2 is kept doubled; 0.01 < (d1[x]+d2[x])/2 - ix is
\* 2 * 0.01 < (d1[x]+d2[x]) - 2*ix, compared in hundredths.
rectIntersect(i1, i2, x, y) ==
    LET d1 == GetDimension(i1)
        d2 == GetDimension(i2)
        cx1 == 2 * i1.Position[x + 1] + d1[x + 1]
        cy1 == 2 * i1.Position[y + 1] + d1[y + 1]
        cx2 == 2 * i2.Position[x + 1] + d2[x + 1]
        cy2 == 2 * i2.Position[y + 1] + d2[y + 1]
        ix == Abs(cx1 - cx2)
        iy == Abs(cy1 - cy2)
    IN  /\ 2 * ToleranceHundredths < 100 * ((d1[x + 1] + d2[x + 1]) - ix)
        /\ 2 * ToleranceHundredths < 100 * ((d1[y + 1] + d2[y + 1]) - iy)

Intersect(i1, i2) ==
    /\ rectIntersect(i1, i2, WidthAxis, HeightAxis)
    /\ rectIntersect(i1, i2, HeightAxis, DepthAxis)
    /\ rectIntersect(i1, i2, WidthAxis, DepthAxis)

(***************************************************************************)
(* Bin.  The operators below work on a record st = [Bins, item, log]: the  *)
(* bins, the item objects and the history of pivot searches.               *)
(***************************************************************************)
RECURSIVE SumVolume(_, _)
SumVolume(its, ids) ==
    IF ids = <<>> THEN 0 ELSE ItemVolume(its[Head(ids)]) + SumVolume(its, Tail(ids))

BinVolume(b) == b.Width * b.Height * b.Depth
GetUsedVolume(st, b) == SumVolume(st.item, st.Bins[b].Items)
GetAvailableVolume(st, b) == BinVolume(st.Bins[b]) - GetUsedVolume(st, b)

\* The containment test of PutItem, line 108, negated.
Contained(bin, it, p) ==
    LET d == GetDimension(it)
    IN  ~(bin.Width < p[1] + d[1] \/ bin.Height < p[2] + d[2] \/ bin.Depth < p[3] + d[3])

\* A faulty PutItem loop, which C10 must tell from the real one: it goes on
\* to the next rotation when the first rotation within the bin intersects an
\* occupant.
RECURSIVE PutItemFromRetry(_, _, _, _, _)
PutItemFromRetry(st, b, i, p, r) ==
    IF r >= NumRotations THEN [st |-> st, fit |-> FALSE]
    ELSE LET st1 == [st EXCEPT !.item[i].RotationType = r]
             occ == st1.Bins[b].Items
         IN  IF \/ ~Contained(st1.Bins[b], st1.item[i], p)
                \/ \E j \in 1..Len(occ) : Intersect(st1.item[occ[j]], st1.item[i])
             THEN PutItemFromRetry(st1, b, i, p, r + 1)
             ELSE [st |-> [st1 EXCEPT !.Bins[b].Items = Append(occ, i)], fit |-> TRUE]

\* The loop of PutItem from rotation r on; item i already has Position p.
RECURSIVE PutItemFrom(_, _, _, _, _)
PutItemFrom(st, b, i, p, r) ==
    IF r >= NumRotations THEN [st |-> st, fit |-> FALSE]
    ELSE LET st1 == [st EXCEPT !.item[i].RotationType = r]
             occ == st1.Bins[b].Items
         IN  IF ~Contained(st1.Bins[b], st1.item[i], p)
             THEN PutItemFrom(st1, b, i, p, r + 1)
             ELSE IF \E j \in 1..Len(occ) : Intersect(st1.item[occ[j]], st1.item[i])
                  THEN [st |-> st1, fit |-> FALSE]
                  ELSE [st |-> [st1 EXCEPT !.Bins[b].Items = Append(occ, i)], fit |-> TRUE]

PutItem(st, b, i, p) ==
    PutItemFrom([st EXCEPT !.item[i].Position = p], b, i, p, 0)

(***************************************************************************)
(* Packer                                                                  *)
(***************************************************************************)
\* First bin, in the order of p.Bins, with more available volume than b; 0 for nil.
getBiggerBinThan(st, b) ==
    LET v == GetAvailableVolume(st, b)
        bigger == {b2 \in 1..Len(st.Bins) : GetAvailableVolume(st, b2) > v}
    IN  IF bigger = {} THEN 0 ELSE MinOf(bigger)

\* The pivot packToBin derives from occupant ib for axis pt, lines 422-429.
PivotFor(ib, pt) ==
    CASE pt = WidthAxis  -> <<ib.Position[1] + ib.Width, ib.Position[2], ib.Position[3]>>
      [] pt = HeightAxis -> <<ib.Position[1], ib.Position[2] + ib.Height, ib.Position[3]>>
      [] pt = DepthAxis  -> <<ib.Position[1], ib.Position[2], ib.Position[3] + ib.Depth>>

\* The lookup loops of packToBin, lines 419-436, from axis pt and occupant j on:
\* axes in the outer loop, the bin's occupants in the inner one.
RECURSIVE TryPivots(_, _, _, _, _)
TryPivots(st, b, i, pt, j) ==
    IF pt > DepthAxis THEN [st |-> st, fit |-> FALSE]
    ELSE IF j > Len(st.Bins[b].Items) THEN TryPivots(st, b, i, pt + 1, 1)
    ELSE LET ib == st.item[st.Bins[b].Items[j]]
             r == PutItem(st, b, i, PivotFor(ib, pt))
         IN  IF r.fit THEN r ELSE TryPivots(r.st, b, i, pt, j + 1)

\* History of one pivot search: the bin, the item, the state before and the outcome.
Logged(st, b, i, r) ==
    [r.st EXCEPT !.log = Append(st.log,
        [bin |-> b, id |-> i, Bins |-> st.Bins, item |-> st.item,
         fit |-> r.fit, pivot |-> r.st.item[i].Position])]

RECURSIVE packToBin(_, _, _, _)
RECURSIVE PackRest(_, _, _, _, _, _)
RECURSIVE Escalate(_, _, _, _)

\* packToBin(b, items); pItems is p.Items, which the code returns at line 409.
packToBin(st, b, items, pItems) ==
    LET r == PutItem(st, b, items[1], startPosition)
    IN  IF ~r.fit
        THEN LET b2 == getBiggerBinThan(r.st, b)
             IN  IF b2 # 0 THEN packToBin(r.st, b2, items, pItems)
                 ELSE [st |-> r.st, unpacked |-> pItems]
        ELSE PackRest(r.st, b, items, 2, <<>>, pItems)

\* The loop over items[1:], lines 413-453, from items[n] on (1-based).
PackRest(st, b, items, n, unpacked, pItems) ==
    IF n > Len(items) THEN [st |-> st, unpacked |-> unpacked]
    ELSE LET i == items[n]
             r == TryPivots(st, b, i, WidthAxis, 1)
             st1 == Logged(st, b, i, r)
         IN  IF r.fit THEN PackRest(st1, b, items, n + 1, unpacked, pItems)
             ELSE LET e == Escalate(st1, b, i, pItems)
                  IN  PackRest(e.st, e.b, items, n + 1,
                               IF e.fitted THEN unpacked ELSE Append(unpacked, i), pItems)

\* The escalation loop, lines 439-447.
Escalate(st, b, i, pItems) ==
    LET b2 == getBiggerBinThan(st, b)
    IN  IF b2 = 0 THEN [st |-> st, b |-> b, fitted |-> FALSE]
        ELSE LET left == packToBin(st, b2, Append(st.Bins[b2].Items, i), pItems)
             IN  IF Len(left.unpacked) = 0
                 THEN [st |-> left.st, b |-> b2, fitted |-> TRUE]
                 ELSE Escalate(left.st, b2, i, pItems)

\* FindFittedBin(i), from bin b on; bin 0 for nil.
RECURSIVE FindFittedFrom(_, _, _)
FindFittedFrom(st, i, b) ==
    IF b > Len(st.Bins) THEN [st |-> st, bin |-> 0]
    ELSE LET r == PutItem(st, b, i, startPosition)
         IN  IF ~r.fit THEN FindFittedFrom(r.st, i, b + 1)
             ELSE IF Len(r.st.Bins[b].Items) = 1 /\ r.st.Bins[b].Items[1] = i
                  THEN [st |-> [r.st EXCEPT !.Bins[b].Items = <<>>], bin |-> b]
                  ELSE [st |-> r.st, bin |-> b]

FindFittedBin(st, i) == FindFittedFrom(st, i, 1)

\* The search for the bin whose available volume is closest below need,
\* lines 358-365, from bin b on.
RECURSIVE ClosestFrom(_, _, _, _, _)
ClosestFrom(st, need, b, found, fb) ==
    IF b > Len(st.Bins) THEN fb
    ELSE LET a == GetAvailableVolume(st, b)
         IN  IF a >= found /\ a < need
             THEN ClosestFrom(st, need, b + 1, a, b)
             ELSE ClosestFrom(st, need, b + 1, found, fb)

(***************************************************************************)
(* sort.Sort does not promise stability: any arrangement in which no       *)
(* element is Less than its predecessor can come out.  Items of the same   *)
(* width, height and depth are interchangeable (nothing reads their        *)
(* names), so of the arrangements that differ only in the order of such    *)
(* items the one that keeps them in registration order stands for all.     *)
(***************************************************************************)
Perms(n) == {f \in [1..n -> 1..n] : \A a, c \in 1..n : a # c => f[a] # f[c]}

\* A faulty sort of the bins, which C5 must tell from the real one:
\* descending volume.
SortedBinsDescending(bins) ==
    {[j \in 1..Len(bins) |-> bins[f[j]]] : f \in
        {g \in Perms(Len(bins)) :
            \A j \in 1..(Len(bins) - 1) : ~(BinVolume(bins[g[j + 1]]) > BinVolume(bins[g[j]]))}}

\* BinSlice.Less: ascending volume.
SortedBins(bins) ==
    {[j \in 1..Len(bins) |-> bins[f[j]]] : f \in
        {g \in Perms(Len(bins)) :
            \A j \in 1..(Len(bins) - 1) : ~(BinVolume(bins[g[j + 1]]) < BinVolume(bins[g[j]]))}}

SameShape(i1, i2) == i1.Width = i2.Width /\ i1.Height = i2.Height /\ i1.Depth = i2.Depth

\* ItemSlice.Less: descending volume.
SortedItems(its, ids) ==
    {[j \in 1..Len(ids) |-> ids[f[j]]] : f \in
        {g \in Perms(Len(ids)) :
            /\ \A j \in 1..(Len(ids) - 1) :
                ~(ItemVolume(its[ids[g[j + 1]]]) > ItemVolume(its[ids[g[j]]]))
            /\ \A j, m \in 1..Len(ids) :
                (j < m /\ SameShape(its[ids[g[j]]], its[ids[g[m]]])) => g[j] < g[m]}}

RECURSIVE SumBinVolume(_)
SumBinVolume(bins) ==
    IF bins = <<>> THEN 0 ELSE BinVolume(Head(bins)) + SumBinVolume(Tail(bins))

(***************************************************************************)
(* Initial states: a packer after NewPacker, AddBin and AddItem.  The bins *)
(* and items are given in one canonical order of their shapes; the sort at *)
(* the head of Pack yields every order a different registration order      *)
(* could produce.                                                          *)
(***************************************************************************)
Inputs(shapes, max) ==
    UNION {{[j \in 1..n |-> shapes[f[j]]] : f \in
                {g \in [1..n -> 1..Len(shapes)] : \A j \in 1..(n - 1) : g[j] <= g[j + 1]}} :
           n \in 0..max}

Ids(its) == [j \in 1..Len(its) |-> j]

NoPut == [id |-> 0, pivot |-> startPosition, fit |-> FALSE, Bins |-> <<>>, item |-> <<>>]

Init ==
    /\ FewestBoxes \in BOOLEAN
    /\ Bins \in {[j \in 1..Len(s) |-> NewBin(s[j])] : s \in Inputs(BinShapes, MaxBins)}
    /\ item \in {[j \in 1..Len(s) |-> NewItem(s[j])] : s \in Inputs(ItemShapes, MaxItems)}
    /\ Items = Ids(item)
    /\ UnfitItems = <<>>
    /\ pc = "start"
    /\ err = "none"
    /\ scan = 0
    /\ foundBin = 0
    /\ searches = <<>>
    /\ lastPut = NoPut
    /\ calls = 0

State == [Bins |-> Bins, item |-> item, log |-> <<>>]

\* itemVolumeSum of Pack: the volume of all registered items.
itemVolumeSum == SumVolume(item, Ids(item))

(***************************************************************************)
(* Pack, lines 312-338: the two sorts and the validation.                  *)
(***************************************************************************)
\* A faulty validation, which C6 must tell from the real one: it does not
\* compare the total volumes.
ValidationNoTotal(sb, its, si) ==
    IF Len(sb) = 0 THEN "NoBins"
    ELSE IF Len(si) = 0 THEN "NoItems"
    ELSE IF BinVolume(sb[Len(sb)]) < ItemVolume(its[si[1]]) THEN "InvalidBinsVolume"
    ELSE "ok"

\* The checks of lines 314-338 on the sorted bins sb and the sorted pending
\* list si of the items its; "ok" when Pack goes on to place items.
Validation(sb, its, si) ==
    IF Len(sb) = 0 THEN "NoBins"
    ELSE IF Len(si) = 0 THEN "NoItems"
    ELSE IF BinVolume(sb[Len(sb)]) < ItemVolume(its[si[1]]) THEN "InvalidBinsVolume"
    ELSE IF SumBinVolume(sb) < SumVolume(its, si) THEN "InvalidBinsVolume"
    ELSE "ok"

PackValidate ==
    /\ pc = "start"
    /\ \E sb \in SortedBins(Bins), si \in SortedItems(item, Items) :
        /\ Bins' = sb
        /\ Items' = si
        /\ LET v == Validation(sb, item, si)
           IN  IF v = "ok"
               THEN pc' = (IF FewestBoxes THEN "fewestScan" ELSE "greedy") /\ err' = err
               ELSE pc' = "done" /\ err' = v
    /\ scan' = 1
    /\ UNCHANGED <<FewestBoxes, UnfitItems, item, foundBin, searches, lastPut, calls>>

\* A faulty first loop of the FewestBoxes pass, which C7 must tell from the
\* real one: it packs into every bin, large enough by volume or not.
FewestScanAnyBin ==
    /\ pc = "fewestScan"
    /\ IF scan > Len(Bins)
       THEN /\ pc' = "closestSelect"
            /\ UNCHANGED <<Bins, Items, item, scan, searches>>
       ELSE /\ IF Len(Items) > 0
               THEN LET r == packToBin(State, scan, Items, Items)
                    IN  /\ Bins' = r.st.Bins
                        /\ item' = r.st.item
                        /\ searches' = r.st.log
                        /\ Items' = r.unpacked
               ELSE /\ searches' = <<>>
                    /\ UNCHANGED <<Bins, Items, item>>
            /\ scan' = scan + 1
            /\ pc' = pc
    /\ UNCHANGED <<FewestBoxes, UnfitItems, err, foundBin, lastPut, calls>>

(***************************************************************************)
(* Pack, lines 342-347: one iteration of the loop over the bins that might *)
(* hold all of the items.                                                  *)
(***************************************************************************)
FewestScan ==
    /\ pc = "fewestScan"
    /\ IF scan > Len(Bins)
       THEN /\ pc' = "closestSelect"
            /\ UNCHANGED <<Bins, Items, item, scan, searches>>
       ELSE /\ IF BinVolume(Bins[scan]) >= itemVolumeSum /\ Len(Items) > 0
               THEN LET r == packToBin(State, scan, Items, Items)
                    IN  /\ Bins' = r.st.Bins
                        /\ item' = r.st.item
                        /\ searches' = r.st.log
                        /\ Items' = r.unpacked
               ELSE /\ searches' = <<>>
                    /\ UNCHANGED <<Bins, Items, item>>
            /\ scan' = scan + 1
            /\ pc' = pc
    /\ UNCHANGED <<FewestBoxes, UnfitItems, err, foundBin, lastPut, calls>>

(***************************************************************************)
(* Pack, lines 348-365 and 368-371: the head of the second loop of the     *)
(* FewestBoxes pass and its search for foundBin.                           *)
(***************************************************************************)
ClosestSelect ==
    /\ pc = "closestSelect"
    /\ IF Len(Items) > 0
       THEN LET need == SumVolume(item, Items)
                fb == ClosestFrom(State, need, 1, 0, 0)
            IN  /\ foundBin' = fb
                /\ pc' = (IF fb # 0 THEN "closestPack" ELSE "greedy")
       ELSE /\ foundBin' = 0
            /\ pc' = "greedy"
    /\ searches' = <<>>
    /\ UNCHANGED <<FewestBoxes, Bins, Items, UnfitItems, item, err, scan, lastPut, calls>>

(***************************************************************************)
(* Pack, lines 366-367: pack into foundBin and go round the loop again.    *)
(***************************************************************************)
ClosestPack ==
    /\ pc = "closestPack"
    /\ LET r == packToBin(State, foundBin, Items, Items)
       IN  /\ Bins' = r.st.Bins
           /\ item' = r.st.item
           /\ searches' = r.st.log
           /\ Items' = r.unpacked
    /\ foundBin' = 0
    /\ pc' = "closestSelect"
    /\ UNCHANGED <<FewestBoxes, UnfitItems, err, scan, lastPut, calls>>

(***************************************************************************)
(* Pack, lines 375-383: one iteration of the greedy loop, unfitItem        *)
(* included.                                                               *)
(***************************************************************************)
GreedyStep ==
    /\ pc = "greedy"
    /\ Len(Items) > 0
    /\ LET f == FindFittedBin(State, Items[1])
       IN  IF f.bin = 0
           THEN /\ UnfitItems' = Append(UnfitItems, Items[1])
                /\ Items' = Tail(Items)
                /\ Bins' = f.st.Bins
                /\ item' = f.st.item
                /\ searches' = <<>>
           ELSE LET r == packToBin(f.st, f.bin, Items, Items)
                IN  /\ Bins' = r.st.Bins
                    /\ item' = r.st.item
                    /\ searches' = r.st.log
                    /\ Items' = r.unpacked
                    /\ UnfitItems' = UnfitItems
    /\ UNCHANGED <<FewestBoxes, pc, err, scan, foundBin, lastPut, calls>>

(***************************************************************************)
(* Pack, lines 385-389.                                                    *)
(***************************************************************************)
PackReturn ==
    /\ pc = "greedy"
    /\ Len(Items) = 0
    /\ pc' = "done"
    /\ err' = (IF Len(UnfitItems) > 0 THEN "UnfitItemsExist" ELSE "nil")
    /\ searches' = <<>>
    /\ UNCHANGED <<FewestBoxes, Bins, Items, UnfitItems, item, scan, foundBin, lastPut, calls>>

Next == PackValidate \/ FewestScan \/ ClosestSelect \/ ClosestPack \/ GreedyStep \/ PackReturn

Spec == Init /\ [][Next]_vars

\* Pack is one synchronous call on one thread: it takes step after step until
\* it returns.  Running says so without ENABLED: a behaviour either ends with
\* Pack returned or takes steps of Next for ever (which implies WF_vars(Next),
\* no step being possible once Pack has returned).
Running == <>[](pc = "done") \/ []<><<Next>>_vars
FairSpec == Spec /\ WF_vars(PackReturn) /\ Running

(***************************************************************************)
(* Direct use of a bin: Bin.PutItem is exported, and a caller may hand it  *)
(* a new item or one it has handed over before, at any pivot.              *)
(***************************************************************************)
InitPut ==
    /\ FewestBoxes = FALSE
    /\ Bins \in {<<NewBin(BinShapes[s])>> : s \in 1..Len(BinShapes)}
    /\ item = <<>>
    /\ Items = <<>>
    /\ UnfitItems = <<>>
    /\ pc = "api"
    /\ err = "none"
    /\ scan = 0
    /\ foundBin = 0
    /\ searches = <<>>
    /\ lastPut = NoPut
    /\ calls = 0

PutCall(its, i, p) ==
    LET r == PutItem([Bins |-> Bins, item |-> its, log |-> <<>>], 1, i, p)
    IN  /\ Bins' = r.st.Bins
        /\ item' = r.st.item
        /\ lastPut' = [id |-> i, pivot |-> p, fit |-> r.fit, Bins |-> Bins, item |-> its]
        /\ calls' = calls + 1
        /\ UNCHANGED <<FewestBoxes, Items, UnfitItems, pc, err, scan, foundBin, searches>>

\* b.PutItem(NewItem(...), p)
PutNewItem ==
    /\ pc = "api"
    /\ calls < MaxCalls
    /\ \E s \in 1..Len(ItemShapes), p \in Pivots :
        PutCall(Append(item, NewItem(ItemShapes[s])), Len(item) + 1, p)

\* b.PutItem(i, p) with an item of an earlier call
PutItemAgain ==
    /\ pc = "api"
    /\ calls < MaxCalls
    /\ \E i \in DOMAIN item, p \in Pivots : PutCall(item, i, p)

NextPut == PutNewItem \/ PutItemAgain

PutSpec == InitPut /\ [][NextPut]_vars

(***************************************************************************)
(* Properties                                                              *)
(***************************************************************************)
Returned == pc = "done"
Packed == pc = "done" /\ err \in {"nil", "UnfitItemsExist"}
Rejected == pc = "done" /\ err \in {"NoBins", "NoItems", "InvalidBinsVolume"}

Count(seq, x) == Cardinality({j \in 1..Len(seq) : seq[j] = x})
\* The places (bin, index) of all bins' Items lists.
Places == UNION {{<<b, j>> : j \in 1..Len(Bins[b].Items)} : b \in 1..Len(Bins)}
\* How often item id occurs in the bins' Items lists and UnfitItems together.
Occurrences(id) ==
    Cardinality({pl \in Places : Bins[pl[1]].Items[pl[2]] = id}) + Count(UnfitItems, id)

MaxOf(S) == CHOOSE x \in S : \A y \in S : y <= x
ShapeOf(x) == <<x.Width, x.Height, x.Depth>>

\* C1: once Pack has returned, no two distinct entries of a bin's Items list
\* intersect, by Intersect on their recorded Position and RotationType.
C1_NonOverlap ==
    Returned =>
        \A b \in 1..Len(Bins) : \A j, m \in 1..Len(Bins[b].Items) :
            j # m => ~Intersect(item[Bins[b].Items[j]], item[Bins[b].Items[m]])

\* C2: once Pack has returned, every entry of every bin's Items list lies
\* inside the bin: its Position is not negative and Position plus its
\* dimension under its recorded RotationType does not exceed the bin.
C2_Containment ==
    Returned =>
        \A b \in 1..Len(Bins) : \A j \in 1..Len(Bins[b].Items) :
            LET it == item[Bins[b].Items[j]]
                d == GetDimension(it)
                p == it.Position
            IN  /\ p[1] >= 0 /\ p[2] >= 0 /\ p[3] >= 0
                /\ p[1] + d[1] <= Bins[b].Width
                /\ p[2] + d[2] <= Bins[b].Height
                /\ p[3] + d[3] <= Bins[b].Depth

\* C3: when Pack returns nil or UnfitItemsExist, every registered item occurs
\* exactly once in all bins' Items lists and UnfitItems taken together, so
\* the packed items and the unfit items add up to the registered items.
C3_Conservation ==
    Packed =>
        /\ \A id \in DOMAIN item : Occurrences(id) = 1
        /\ Cardinality(Places) + Len(UnfitItems) = Len(item)

\* C4: every call of Pack eventually returns.
C4_Termination == <>(pc = "done")

\* C5: Pack returns NoBins when no bin is registered, otherwise NoItems when
\* no item is registered, otherwise InvalidBinsVolume exactly when the
\* largest item volume exceeds the largest bin volume or the total item
\* volume exceeds the total bin volume; and with any of these three errors
\* nothing was placed: all bins' Items and UnfitItems are empty and the
\* pending list holds all registered items.
C5_ValidationOutcome ==
    Returned =>
        LET nb == Len(Bins)
            ni == Len(item)
            binVolumes == {BinVolume(Bins[b]) : b \in 1..nb}
            itemVolumes == {ItemVolume(item[i]) : i \in 1..ni}
            infeasible ==
                \/ MaxOf(itemVolumes) > MaxOf(binVolumes)
                \/ SumVolume(item, Ids(item)) > SumBinVolume(Bins)
        IN  /\ (err = "NoBins") <=> (nb = 0)
            /\ (err = "NoItems") <=> (nb > 0 /\ ni = 0)
            /\ (err = "InvalidBinsVolume") <=> (nb > 0 /\ ni > 0 /\ infeasible)
            /\ Rejected =>
                /\ \A b \in 1..nb : Bins[b].Items = <<>>
                /\ UnfitItems = <<>>
                /\ Len(Items) = ni
                /\ \A i \in 1..ni : Count(Items, i) = 1

\* C5 witness: Pack rejected bins whose largest holds the largest item but
\* whose total volume is too small.
C5_Witness ==
    /\ Returned
    /\ err = "InvalidBinsVolume"
    /\ Len(Bins) >= 2
    /\ MaxOf({ItemVolume(item[i]) : i \in 1..Len(item)})
          <= MaxOf({BinVolume(Bins[b]) : b \in 1..Len(Bins)})

\* The packer of C6: one bin of 1x1x1 and two items of 1x1x1.
C6_Input ==
    /\ Len(Bins) = 1
    /\ ShapeOf(Bins[1]) = <<1, 1, 1>>
    /\ Len(item) = 2
    /\ ShapeOf(item[1]) = <<1, 1, 1>>
    /\ ShapeOf(item[2]) = <<1, 1, 1>>

\* C6 as stated: with one bin of 1x1x1 and two items of 1x1x1, Pack places
\* the first item in the bin at (0,0,0), moves the second to UnfitItems and
\* returns UnfitItemsExist.
C6_OverflowToUnfit ==
    (Returned /\ C6_Input) =>
        /\ err = "UnfitItemsExist"
        /\ Len(Bins[1].Items) = 1
        /\ item[Bins[1].Items[1]].Position = <<0, 0, 0>>
        /\ Len(UnfitItems) = 1
        /\ UnfitItems[1] # Bins[1].Items[1]

\* C6 amended: with one bin of 1x1x1 and two items of 1x1x1, Pack returns
\* InvalidBinsVolume (the items' total volume exceeds the bins') and places
\* nothing: the bin and UnfitItems stay empty, both items stay pending.
C6_RejectedByVolume ==
    (Returned /\ C6_Input) =>
        /\ err = "InvalidBinsVolume"
        /\ Bins[1].Items = <<>>
        /\ UnfitItems = <<>>
        /\ Len(Items) = 2

\* C6 witness: Pack has returned for that packer.
C6_Witness == Returned /\ C6_Input

\* The bins that might hold all of the items, by volume.
Adequate == {b \in 1..Len(Bins) : BinVolume(Bins[b]) >= itemVolumeSum}
SmallestAdequate ==
    {b \in Adequate : \A c \in Adequate : BinVolume(Bins[b]) <= BinVolume(Bins[c])}
\* All registered items are in bin b, nothing is in another bin or unfit.
AllIn(b) ==
    /\ Len(Bins[b].Items) = Len(item)
    /\ \A id \in DOMAIN item : Count(Bins[b].Items, id) = 1
    /\ \A c \in 1..Len(Bins) : c # b => Bins[c].Items = <<>>
    /\ UnfitItems = <<>>
\* packToBin places all the items, as registered and in the order si, in a
\* bin of the shape of bin when that bin is the packer's only bin.
FitsAlone(bin, si) ==
    LET fresh == [j \in DOMAIN item |-> NewItem(ShapeOf(item[j]))]
        r == packToBin([Bins |-> <<NewBin(ShapeOf(bin))>>, item |-> fresh, log |-> <<>>],
                       1, si, si)
    IN  Len(r.unpacked) = 0
FitsSmallestAdequate ==
    \A b \in SmallestAdequate :
        \A si \in SortedItems(item, Ids(item)) : FitsAlone(Bins[b], si)

PutCalled == lastPut.id # 0
\* Item j differs from what it was before the call in no field but those of F.
SameBut(j, F) ==
    \A fld \in {"Width", "Height", "Depth", "RotationType", "Position"} \ F :
        item[j][fld] = lastPut.item[j][fld]
OthersUntouched == \A j \in DOMAIN item : j # lastPut.id => SameBut(j, {})

\* C8: when PutItem returns false the bin's Items and the item's
\* Position are unchanged and only the item's RotationType may differ; when
\* it returns true the item is the last element of the bin's Items and its
\* Position is the pivot.
C8_PutItemFrame ==
    PutCalled =>
        IF lastPut.fit
        THEN /\ Bins[1].Items = Append(lastPut.Bins[1].Items, lastPut.id)
             /\ item[lastPut.id].Position = lastPut.pivot
        ELSE /\ Bins[1].Items = lastPut.Bins[1].Items
             /\ item[lastPut.id].Position = lastPut.item[lastPut.id].Position
             /\ SameBut(lastPut.id, {"RotationType"})
             /\ OthersUntouched

\* What PutItem does in place of C8: it sets the item's Position to the pivot
\* whether it succeeds or not; when it returns false the bin's Items is
\* unchanged and no other field but the item's RotationType differs; when it
\* returns true the item is the last element of the bin's Items.
C8_PutItemFramePosition ==
    PutCalled =>
        /\ item[lastPut.id].Position = lastPut.pivot
        /\ IF lastPut.fit
           THEN Bins[1].Items = Append(lastPut.Bins[1].Items, lastPut.id)
           ELSE /\ Bins[1].Items = lastPut.Bins[1].Items
                /\ SameBut(lastPut.id, {"RotationType", "Position"})
                /\ OthersUntouched

\* The case of C8: a failed PutItem on an item that is in the bin, at a pivot
\* other than the item's Position.
C8_Witness ==
    /\ PutCalled
    /\ ~lastPut.fit
    /\ Count(lastPut.Bins[1].Items, lastPut.id) = 1
    /\ lastPut.item[lastPut.id].Position # lastPut.pivot

\* The rotations in the order of the claim, and the dimension each gives.
RotationOrder == <<"WHD", "HWD", "HDW", "DHW", "DWH", "WDH">>
Extent(it, name) ==
    CASE name = "WHD" -> <<it.Width, it.Height, it.Depth>>
      [] name = "HWD" -> <<it.Height, it.Width, it.Depth>>
      [] name = "HDW" -> <<it.Height, it.Depth, it.Width>>
      [] name = "DHW" -> <<it.Depth, it.Height, it.Width>>
      [] name = "DWH" -> <<it.Depth, it.Width, it.Height>>
      [] name = "WDH" -> <<it.Width, it.Depth, it.Height>>
\* The rotations (as places in RotationOrder) under which the item of the
\* last call, at its pivot, lies within the bin.
WithinBin ==
    LET bin == lastPut.Bins[1]
        p == lastPut.pivot
    IN  {k \in 1..Len(RotationOrder) :
            LET d == Extent(lastPut.item[lastPut.id], RotationOrder[k])
            IN  /\ p[1] + d[1] <= bin.Width
                /\ p[2] + d[2] <= bin.Height
                /\ p[3] + d[3] <= bin.Depth}
\* The item of the last call under rotation k at the pivot intersects an
\* occupant of the bin (if it is an occupant itself, it is that occupant).
Overlaps(k) ==
    LET placed == [lastPut.item[lastPut.id] EXCEPT !.RotationType = k - 1,
                                                   !.Position = lastPut.pivot]
        occ == lastPut.Bins[1].Items
    IN  \E j \in 1..Len(occ) :
            Intersect(IF occ[j] = lastPut.id THEN placed ELSE lastPut.item[occ[j]], placed)

\* C10: PutItem takes the first rotation, in the order WHD, HWD, HDW, DHW,
\* DWH, WDH, under which the item at the pivot lies within the bin; it returns
\* true iff there is one and the item under it intersects no occupant (then
\* the item has that rotation's dimension), false otherwise, also when a
\* later rotation would lie within the bin and intersect nothing.
C10_RotationSelection ==
    PutCalled =>
        /\ lastPut.fit <=> (WithinBin # {} /\ ~Overlaps(MinOf(WithinBin)))
        /\ lastPut.fit =>
              GetDimension(item[lastPut.id])
                  = Extent(lastPut.item[lastPut.id], RotationOrder[MinOf(WithinBin)])

\* C10 witness: PutItem returned false on the first rotation within the bin
\* although a later rotation lies within the bin and intersects no occupant.
C10_Witness ==
    /\ PutCalled
    /\ ~lastPut.fit
    /\ WithinBin # {}
    /\ \E k \in WithinBin : k > MinOf(WithinBin) /\ ~Overlaps(k)

(***************************************************************************)
(* The pivot searches of packToBin, on the history of the last step.       *)
(***************************************************************************)
\* PutItem succeeds for the item of search e at pivot c, in the state e began in.
SucceedsAt(e, c) ==
    PutItem([Bins |-> e.Bins, item |-> e.item, log |-> <<>>], e.bin, e.id, c).fit
Shifted(p, axis, by) == [p EXCEPT ![axis] = p[axis] + by]
\* The candidates of the claim: occupant by occupant, for each the axes x, y,
\* z, at the occupant's far edge under its rotation.
FarEdgeCandidates(e) ==
    LET occ == e.Bins[e.bin].Items
    IN  [n \in 1..(3 * Len(occ)) |->
            LET o == e.item[occ[((n - 1) \div 3) + 1]]
                axis == ((n - 1) % 3) + 1
            IN  Shifted(o.Position, axis, GetDimension(o)[axis])]
\* Axis by axis, for each the occupants in placement order, at the
\* occupant's far edge under its rotation.
FarEdgeByAxisCandidates(e) ==
    LET occ == e.Bins[e.bin].Items
        m == Len(occ)
    IN  [n \in 1..(3 * m) |->
            LET o == e.item[occ[((n - 1) % m) + 1]]
                axis == ((n - 1) \div m) + 1
            IN  Shifted(o.Position, axis, GetDimension(o)[axis])]
\* Axis by axis, for each the occupants in placement order, shifted by the
\* occupant's own Width, Height or Depth.
OwnSizeCandidates(e) ==
    LET occ == e.Bins[e.bin].Items
        m == Len(occ)
    IN  [n \in 1..(3 * m) |->
            LET o == e.item[occ[((n - 1) % m) + 1]]
                axis == ((n - 1) \div m) + 1
            IN  Shifted(o.Position, axis, ShapeOf(o)[axis])]
\* Search e placed its item at the first of cands at which PutItem succeeds,
\* and failed only if PutItem fails at all of them.
FirstSuccess(e, cands) ==
    IF e.fit
    THEN \E n \in 1..Len(cands) :
            /\ SucceedsAt(e, cands[n])
            /\ \A k \in 1..(n - 1) : ~SucceedsAt(e, cands[k])
            /\ e.pivot = cands[n]
    ELSE \A n \in 1..Len(cands) : ~SucceedsAt(e, cands[n])

\* C9: packToBin places every item after the first at the first
\* pivot, taking the occupants in placement order and for each the axes x, y,
\* z at the occupant's far edge under its rotation, at which PutItem
\* succeeds, and escalates only when PutItem fails at all of them.
C9_PivotSearch ==
    \A n \in 1..Len(searches) : FirstSuccess(searches[n], FarEdgeCandidates(searches[n]))

\* C9 with the axes in the outer loop (x, y, z, for each the occupants in
\* placement order) and the far edges of the claim: violated as well, so the
\* order of the candidates is not all that differs.
C9_FarEdgeByAxis ==
    \A n \in 1..Len(searches) : FirstSuccess(searches[n], FarEdgeByAxisCandidates(searches[n]))

\* What packToBin does in place of C9: it places every item after the first
\* at the first pivot, taking the axes x, y, z and for each the occupants in
\* placement order, each occupant's Position shifted along the axis by the
\* occupant's own Width, Height or Depth (whatever its rotation), at which
\* PutItem succeeds, and escalates only when PutItem fails at all of them.
C9_PivotSearchByAxis ==
    \A n \in 1..Len(searches) : FirstSuccess(searches[n], OwnSizeCandidates(searches[n]))

\* The case of C9: a successful search in a bin with two occupants, one of them
\* rotated, where the two candidate sequences differ.
C9_Witness ==
    \E n \in 1..Len(searches) :
        LET e == searches[n]
            occ == e.Bins[e.bin].Items
        IN  /\ e.fit
            /\ Len(occ) >= 2
            /\ \E j \in 1..Len(occ) : e.item[occ[j]].RotationType # RotationType_WHD
            /\ FarEdgeCandidates(e) # OwnSizeCandidates(e)

====
